---- MODULE Spec2Model ----
(***************************************************************************)
(* AD9850 frequency generator with rotary encoder and push button          *)
(* (AD9850_Freq_Gen_Encoder.ino).                                          *)
(*                                                                         *)
(* The foreground code (setup's chip initialisation, loop, sendFrequency,  *)
(* tfr_byte) is modelled one shared-memory access or one digitalWrite per  *)
(* step; the three interrupt handlers run to completion and may fire       *)
(* between any two foreground steps.  The model is that of the 32-bit ARM  *)
(* builds (EK-TM4C123GXL, MSP-EXP432P401R): a long is read and written in  *)
(* one access and double is IEEE-754 binary64.                             *)
(***************************************************************************)
EXTENDS Integers, Sequences, FiniteSets, TLC

\* ---------------------------------------------------------------- constants
HIGH == 1
LOW == 0
Levels == {LOW, HIGH}

W_CLK == 5
FQ_UD == 6
DATA == 11
RESET == 12
Pins == {W_CLK, FQ_UD, DATA, RESET}

startVal == 1000
minVal == 0
maxVal == 32000000
startInc == 1000
minInc == 1
maxInc == 1000000
divInc == 10

\* the literals of sendFrequency and tfr_byte
RefClock == 125000000
\* (the for loop of sendFrequency written with b<=4)
TuningBytesOffByOne == 4 + 1
TuningBytes == 4
\* (the for loop of tfr_byte written with i<7)
BitsPerByteOneShort == 8 - 1
BitsPerByte == 8
ByteMask == 256

\* ------------------------------------------------------------------- bounds
\* handler invocations in one behaviour
MaxEvents == 2
\* the codec inputs k * FreqStride, k \in 0..MaxMultiple
MaxMultiple == 15

\* -------------------------------------------------------- integer helpers
RECURSIVE Pow2(_)
Pow2(n) == IF n = 0 THEN 1 ELSE 2 * Pow2(n - 1)

\* floor(log2(n)) for 1 <= n < 2^31 (0 below 1)
Log2(n) == IF n < 1 THEN 0 ELSE CHOOSE k \in 0..30 : Pow2(k) <= n /\ n \div 2 < Pow2(k)

\* (the shifts one bit short: data>>=0, freq>>=7)
ShrOneLess(x, n) == x \div Pow2(n - 1)

\* x >> n on a two's complement integer (arithmetic shift)
Shr(x, n) == x \div Pow2(n)

\* (the mask written 0x7F)
ByteMask7F(x) == x % 128
\* x & 0xFF on a two's complement integer
Byte(x) == x % ByteMask

\* bit k (0..31) of the 32-bit two's complement representation of w
BitOf(w, k) == IF k = 31 THEN (IF w < 0 THEN 1 ELSE 0) ELSE (w \div Pow2(k)) % 2

\* ------------------------------------------------------------- tuning word
\* sendFrequency computes  frequency * 4294967295 / 125000000  in double
\* arithmetic and converts the quotient to int32_t.  4294967295 is
\* 2^WordBits - ScaleDeficit, so the exact product is f * 2^32 - f; the
\* operators below carry it as the pair (f, g) meaning f * 2^32 - g, which
\* keeps every intermediate value below 2^31.
WordBits == 32
ScaleDeficit == 1
\* binary64 keeps MantissaBits significant bits
MantissaBits == 53

\* <<quotient, remainder>> of (f * 2^n) / RefClock, for f >= 0
\* (one doubling of the dividend per step; the previous pair is bound once)
RECURSIVE ShlDiv(_, _)
ShlDiv(f, n) ==
    IF n = 0 THEN <<f \div RefClock, f % RefClock>>
    ELSE CHOOSE d \in {<<2 * p[1] + (IF 2 * p[2] >= RefClock THEN 1 ELSE 0),
                          (2 * p[2]) % RefClock>> : p \in {ShlDiv(f, n - 1)}} : TRUE

\* x rounded to a multiple of ulp, to the nearest and on a tie to the even
\* multiple, as the amount to subtract: RoundLoss(x, ulp) is the g with
\* round(-x) = -g, for a value that is -x modulo ulp * 2
RoundLoss(x, ulp) ==
    LET s == (ulp - (x % ulp)) % ulp
        down == x + s
        up == x + s - ulp
    IN  IF 2 * s < ulp THEN down
        ELSE IF 2 * s > ulp THEN up
        ELSE IF (down \div ulp) % 2 = 0 THEN down ELSE up

\* the binary exponent of f * 4294967295 for f > 0, given k = floor(log2(f))
ProductExponent(f, k) == IF f = Pow2(k) THEN WordBits - 1 + k ELSE WordBits + k

\* the double product frequency * 4294967295 for f > 0, as the g with
\* fl(f * 4294967295) = f * 2^32 - g: the exact product rounded to 53
\* significant bits, ties to even
MulRound(f) ==
    CHOOSE g \in {IF e < MantissaBits THEN f * ScaleDeficit
                  ELSE RoundLoss(f * ScaleDeficit, Pow2(e - (MantissaBits - 1)))
                  : e \in {ProductExponent(f, k) : k \in {Log2(f)}}} : TRUE

\* the double n + m/RefClock (0 < m < RefClock, n > 0, eq = floor(log2(n)))
\* converted to an integer: rounding to 53 significant bits reaches n + 1
\* when m/RefClock is within half an ulp of 1, and the conversion truncates
QuotientTrunc(n, m, eq) ==
    LET half == IF MantissaBits - eq < 27 THEN RefClock \div Pow2(MantissaBits - eq) ELSE 0
    IN  IF RefClock - m <= half THEN n + 1 ELSE n

\* the double quotient (f * 2^32 - g) / 125000000 converted to an integer,
\* for f > 0
DivTrunc(f, g) ==
    CHOOSE w \in {IF nm[2] = 0 \/ nm[1] = 0 THEN nm[1]
                  ELSE QuotientTrunc(nm[1], nm[2], Log2(nm[1]))
                  : nm \in {<<p[1] + ((p[2] - g) \div RefClock), (p[2] - g) % RefClock>>
                            : p \in {ShlDiv(f, WordBits)}}} : TRUE

\* int32_t freq = frequency * 4294967295/125000000  (conversion truncates
\* toward zero, so a negative frequency gives the negated magnitude)
TuningMagnitude(f) == CHOOSE w \in {DivTrunc(f, g) : g \in {MulRound(f)}} : TRUE

TuningWord(f) ==
    IF f = 0 THEN 0
    ELSE IF f > 0 THEN TuningMagnitude(f)
    ELSE CHOOSE w \in {0 - TuningMagnitude(a) : a \in {0 - f}} : TRUE

\* ------------------------------------------------------------------- state
VARIABLES
    pc,              \* position of the foreground code (setup, loop, sendFrequency, tfr_byte)
    encoderVal,      \* volatile long encoderVal
    encoderInc,      \* volatile long encoderInc
    encoderLH1,      \* volatile boolean encoderLH1
    encoderLH2,      \* volatile boolean encoderLH2
    lastEncoderVal,  \* static long lastEncoderVal (loop)
    lastEncoderInc,  \* static long lastEncoderInc (loop)
    frequency,       \* argument of the most recent sendFrequency call
    word,            \* value freq was initialised with in that call
    freq,            \* int32_t freq (sendFrequency)
    b,               \* int b (sendFrequency)
    data,            \* byte data (tfr_byte)
    i,               \* int i (tfr_byte)
    line,            \* level of each output pin
    frame,           \* chip side: DATA levels sampled at the W_CLK rising edges since the last FQ_UD rising edge
    fresh,           \* DATA was written since the last W_CLK rising edge
    shownFreq,       \* last value printed by printFreq
    shownInc,        \* last value printed by printInc
    events,          \* handler invocations so far
    preempted,       \* a handler has run since the current loop iteration started
    entryVal,        \* encoderVal when the current un-preempted iteration started
    pressedFrom,     \* encoderInc before the most recent ISR_Button
    trail            \* what the encoder handlers read: under QuadSpec the last edges of the
                     \* clean signal, <<pin, level, encoderVal before>>; otherwise the two
                     \* digitalRead results of the latest invocation, <<pin, first, second>>
                     \* (pin 0 is the button, whose handler reads nothing)

vars == <<pc, encoderVal, encoderInc, encoderLH1, encoderLH2, lastEncoderVal,
          lastEncoderInc, frequency, word, freq, b, data, i, line, frame, fresh,
          shownFreq, shownInc, events, preempted, entryVal, pressedFrom, trail>>

shared == <<encoderVal, encoderInc, encoderLH1, encoderLH2>>
statics == <<lastEncoderVal, lastEncoderInc>>
locals == <<frequency, word, freq, b, data, i>>
wires == <<line, frame, fresh>>
serial == <<shownFreq, shownInc>>
history == <<events, preempted, entryVal, pressedFrom, trail>>

\* ------------------------------------------------------------ initial state
\* (the snapshot initialised to the start frequency)
lastEncoderValAtStart == startVal

\* static long lastEncoderVal = 1;  static long lastEncoderInc = 0;
lastEncoderValInit == 1
lastEncoderIncInit == 0

\* The handlers are attached at lines 107-109, before the chip is initialised
\* at lines 116-118, so at line 116 encoderVal and encoderInc hold whatever the
\* handlers have made of startVal and startInc by then.  The model starts at
\* line 116 from the power-up values and from the values at the ends of the
\* legal ranges.
StartVals == {minVal, startVal, maxVal}
StartIncs == {startInc, minInc}

Init ==
    /\ pc = "s116h"
    /\ encoderVal \in StartVals
    /\ encoderInc \in StartIncs
    /\ encoderLH1 = FALSE
    /\ encoderLH2 = FALSE
    /\ lastEncoderVal = lastEncoderValInit
    /\ lastEncoderInc = lastEncoderIncInit
    /\ frequency = 0
    /\ word = 0
    /\ freq = 0
    /\ b = 0
    /\ data = 0
    /\ i = 0
    /\ line = [p \in Pins |-> LOW]
    /\ frame = <<>>
    /\ fresh = FALSE
    /\ shownFreq = <<>>
    /\ shownInc = <<>>
    /\ events = 0
    /\ preempted = TRUE
    /\ entryVal = 0
    /\ pressedFrom = 0
    /\ trail = <<>>

\* ------------------------------------------------------------ output pins
\* digitalWrite(pin, v), with what the chip sees of it: a rising edge of W_CLK
\* shifts the DATA level in, a rising edge of FQ_UD latches and resets the
\* 40-bit input register
DigitalWrite(pin, v) ==
    /\ line' = [line EXCEPT ![pin] = v]
    /\ frame' = IF pin = W_CLK /\ line[W_CLK] = LOW /\ v = HIGH THEN Append(frame, line[DATA])
                ELSE IF pin = FQ_UD /\ line[FQ_UD] = LOW /\ v = HIGH THEN <<>>
                ELSE frame
    /\ fresh' = IF pin = DATA THEN TRUE
                ELSE IF pin = W_CLK /\ line[W_CLK] = LOW /\ v = HIGH THEN FALSE
                ELSE fresh

\* -------------------------------------------------------------------- setup
\* pulseHigh(RESET); pulseHigh(W_CLK); pulseHigh(FQ_UD);
SetupPcs == {"s116h", "s116l", "s117h", "s117l", "s118h", "s118l"}

\* (setup written with the W_CLK pulse before the RESET pulse)
SetupPinSwapped(p) == IF p \in {"s116h", "s116l"} THEN W_CLK
                      ELSE IF p \in {"s117h", "s117l"} THEN RESET ELSE FQ_UD

SetupPin(p) == IF p \in {"s116h", "s116l"} THEN RESET
               ELSE IF p \in {"s117h", "s117l"} THEN W_CLK ELSE FQ_UD

SetupNext(p) == CASE p = "s116h" -> "s116l" [] p = "s116l" -> "s117h"
                  [] p = "s117h" -> "s117l" [] p = "s117l" -> "s118h"
                  [] p = "s118h" -> "s118l" [] p = "s118l" -> "l127"

SetupPulse ==
    /\ pc \in SetupPcs
    /\ DigitalWrite(SetupPin(pc), IF pc \in {"s116h", "s117h", "s118h"} THEN HIGH ELSE LOW)
    /\ pc' = SetupNext(pc)
    /\ UNCHANGED <<shared, statics, locals, serial, history>>

\* ----------------------------------------------------------------- handlers
\* (the handler written with -= instead of /=)
ButtonSubtracts(inc) == inc - divInc

\* encoderInc /= divInc;
Button(inc) == inc \div divInc

\* (the handler without its test of the other channel's latch)
Encoder1ValNoLatchTest(r1, val, inc, lh2) ==
    IF r1 = HIGH THEN val + inc ELSE val

\* ISR_Encoder1 with r1, r2 the results of its two digitalRead(encoderPin1)
Encoder1Val(r1, val, inc, lh2) ==
    IF r1 = HIGH /\ ~lh2 THEN val + inc ELSE val

Encoder1LH(r1, r2, lh1) ==
    IF r2 = LOW THEN FALSE ELSE IF r1 = HIGH THEN TRUE ELSE lh1

\* (the handler written with += as in ISR_Encoder1)
Encoder2ValAdds(r1, val, inc, lh1) ==
    IF r1 = HIGH /\ ~lh1 THEN val + inc ELSE val

\* ISR_Encoder2 with r1, r2 the results of its two digitalRead(encoderPin2)
Encoder2Val(r1, val, inc, lh1) ==
    IF r1 = HIGH /\ ~lh1 THEN val - inc ELSE val

Encoder2LH(r1, r2, lh2) ==
    IF r2 = LOW THEN FALSE ELSE IF r1 = HIGH THEN TRUE ELSE lh2

\* a handler runs to completion between two foreground steps
Interrupt ==
    /\ events < MaxEvents
    /\ events' = events + 1
    /\ preempted' = TRUE
    /\ entryVal' = 0
    /\ UNCHANGED <<pc, statics, locals, wires, serial>>

\* (the handler also restarting the frequency)
ISR_ButtonRestartsVal ==
    /\ Interrupt
    /\ encoderInc' = Button(encoderInc)
    /\ encoderVal' = startVal
    /\ pressedFrom' = encoderInc
    /\ trail' = <<<<0, LOW, LOW>>>>
    /\ UNCHANGED <<encoderLH1, encoderLH2>>

\* (the button is pin 0 of the trail; its interrupt is FALLING)
ISR_Button ==
    /\ Interrupt
    /\ encoderInc' = Button(encoderInc)
    /\ pressedFrom' = encoderInc
    /\ trail' = <<<<0, LOW, LOW>>>>
    /\ UNCHANGED <<encoderVal, encoderLH1, encoderLH2>>

ISR_Encoder1 ==
    /\ Interrupt
    /\ \E r1, r2 \in Levels :
          /\ encoderVal' = Encoder1Val(r1, encoderVal, encoderInc, encoderLH2)
          /\ encoderLH1' = Encoder1LH(r1, r2, encoderLH1)
          /\ trail' = <<<<1, r1, r2>>>>
    /\ UNCHANGED <<encoderInc, encoderLH2, pressedFrom>>

ISR_Encoder2 ==
    /\ Interrupt
    /\ \E r1, r2 \in Levels :
          /\ encoderVal' = Encoder2Val(r1, encoderVal, encoderInc, encoderLH1)
          /\ encoderLH2' = Encoder2LH(r1, r2, encoderLH2)
          /\ trail' = <<<<2, r1, r2>>>>
    /\ UNCHANGED <<encoderInc, encoderLH1, pressedFrom>>

\* --------------------------------------------------------------------- loop
\* (the test of line 127 also looking at the step size)
L127OnAnyChange ==
    /\ pc = "l127"
    /\ pc' = IF lastEncoderVal # encoderVal \/ lastEncoderInc # encoderInc THEN "l128" ELSE "l135"
    /\ preempted' = FALSE
    /\ entryVal' = encoderVal
    /\ UNCHANGED <<shared, statics, locals, wires, serial, events, pressedFrom, trail>>

\* if (lastEncoderVal != encoderVal) {
L127 ==
    /\ pc = "l127"
    /\ pc' = IF lastEncoderVal # encoderVal THEN "l128" ELSE "l135"
    /\ preempted' = FALSE
    /\ entryVal' = encoderVal
    /\ UNCHANGED <<shared, statics, locals, wires, serial, events, pressedFrom, trail>>

\* if (encoderVal > maxVal) ...
L128 ==
    /\ pc = "l128"
    /\ pc' = IF encoderVal > maxVal THEN "l128w" ELSE "l129"
    /\ UNCHANGED <<shared, statics, locals, wires, serial, history>>

\* ... encoderVal = maxVal;
L128w ==
    /\ pc = "l128w"
    /\ encoderVal' = maxVal
    /\ pc' = "l129"
    /\ UNCHANGED <<encoderInc, encoderLH1, encoderLH2, statics, locals, wires, serial, history>>

\* if (encoderVal < minVal) ...
L129 ==
    /\ pc = "l129"
    /\ pc' = IF encoderVal < minVal THEN "l129w" ELSE "l130"
    /\ UNCHANGED <<shared, statics, locals, wires, serial, history>>

\* ... encoderVal = minVal;
L129w ==
    /\ pc = "l129w"
    /\ encoderVal' = minVal
    /\ pc' = "l130"
    /\ UNCHANGED <<encoderInc, encoderLH1, encoderLH2, statics, locals, wires, serial, history>>

\* sendFrequency(encoderVal): the argument is read, freq is computed, and the
\* first tfr_byte(freq & 0xFF) is entered
L130 ==
    /\ pc = "l130"
    /\ frequency' = encoderVal
    /\ word' = TuningWord(encoderVal)
    /\ freq' = word'
    /\ b' = 0
    /\ data' = Byte(freq')
    /\ i' = 0
    /\ pc' = "l178"
    /\ UNCHANGED <<shared, statics, wires, serial, history>>

\* digitalWrite(DATA, data & 0x01);
L178 ==
    /\ pc = "l178"
    /\ DigitalWrite(DATA, data % 2)
    /\ pc' = "l179h"
    /\ UNCHANGED <<shared, statics, locals, serial, history>>

\* pulseHigh(W_CLK): digitalWrite(W_CLK, HIGH);
L179h ==
    /\ pc = "l179h"
    /\ DigitalWrite(W_CLK, HIGH)
    /\ pc' = "l179l"
    /\ UNCHANGED <<shared, statics, locals, serial, history>>

\* pulseHigh(W_CLK): digitalWrite(W_CLK, LOW); then i++, data>>=1 and the
\* loop tests of tfr_byte and of sendFrequency, up to the next digitalWrite
L179l ==
    /\ pc = "l179l"
    /\ DigitalWrite(W_CLK, LOW)
    /\ IF i + 1 < BitsPerByte
       THEN \* next bit of this byte
            /\ i' = i + 1
            /\ data' = Shr(data, 1)
            /\ pc' = "l178"
            /\ UNCHANGED <<freq, b>>
       ELSE IF b < TuningBytes
       THEN \* tfr_byte returns into the for loop: b++, freq>>=8
            /\ b' = b + 1
            /\ freq' = Shr(freq, BitsPerByte)
            /\ data' = IF b' < TuningBytes THEN Byte(freq') ELSE 0
            /\ i' = 0
            /\ pc' = "l178"
       ELSE \* tfr_byte(0x000) returns
            /\ i' = i + 1
            /\ data' = Shr(data, 1)
            /\ pc' = "l190h"
            /\ UNCHANGED <<freq, b>>
    /\ UNCHANGED <<shared, statics, frequency, word, serial, history>>

\* pulseHigh(FQ_UD): digitalWrite(FQ_UD, HIGH);
L190h ==
    /\ pc = "l190h"
    /\ DigitalWrite(FQ_UD, HIGH)
    /\ pc' = "l190l"
    /\ UNCHANGED <<shared, statics, locals, serial, history>>

\* pulseHigh(FQ_UD): digitalWrite(FQ_UD, LOW); sendFrequency returns
L190l ==
    /\ pc = "l190l"
    /\ DigitalWrite(FQ_UD, LOW)
    /\ pc' = "l131"
    /\ UNCHANGED <<shared, statics, locals, serial, history>>

\* printFreq(encoderVal);
L131 ==
    /\ pc = "l131"
    /\ shownFreq' = <<encoderVal>>
    /\ pc' = "l132"
    /\ UNCHANGED <<shared, statics, locals, wires, shownInc, history>>

\* lastEncoderVal = encoderVal;
L132 ==
    /\ pc = "l132"
    /\ lastEncoderVal' = encoderVal
    /\ pc' = "l135"
    /\ UNCHANGED <<shared, lastEncoderInc, locals, wires, serial, history>>

\* if (lastEncoderInc != encoderInc) {
L135 ==
    /\ pc = "l135"
    /\ pc' = IF lastEncoderInc # encoderInc THEN "l136" ELSE "l127"
    /\ UNCHANGED <<shared, statics, locals, wires, serial, history>>

\* if (encoderInc < minInc) ...
L136 ==
    /\ pc = "l136"
    /\ pc' = IF encoderInc < minInc THEN "l136w" ELSE "l137"
    /\ UNCHANGED <<shared, statics, locals, wires, serial, history>>

\* ... encoderInc = maxInc;
L136w ==
    /\ pc = "l136w"
    /\ encoderInc' = maxInc
    /\ pc' = "l137"
    /\ UNCHANGED <<encoderVal, encoderLH1, encoderLH2, statics, locals, wires, serial, history>>

\* printInc(encoderInc);
L137 ==
    /\ pc = "l137"
    /\ shownInc' = <<encoderInc>>
    /\ pc' = "l138"
    /\ UNCHANGED <<shared, statics, locals, wires, shownFreq, history>>

\* lastEncoderInc = encoderInc;
L138 ==
    /\ pc = "l138"
    /\ lastEncoderInc' = encoderInc
    /\ pc' = "l127"
    /\ UNCHANGED <<shared, lastEncoderVal, locals, wires, serial, history>>

SendFrequency == L130 \/ L178 \/ L179h \/ L179l \/ L190h \/ L190l

Loop == L127 \/ L128 \/ L128w \/ L129 \/ L129w \/ SendFrequency \/ L131 \/ L132
        \/ L135 \/ L136 \/ L136w \/ L137 \/ L138

Foreground == SetupPulse \/ Loop

Handlers == ISR_Button \/ ISR_Encoder1 \/ ISR_Encoder2

Next == Foreground \/ Handlers

Spec == Init /\ [][Next]_vars

\* the loop runs forever and never blocks
FairSpec == Spec /\ WF_vars(Foreground)

\* ---------------------------------------------------- sendFrequency alone
\* sendFrequency as a function of its argument: the loop is about to call it
\* (line 130) with a frequency of the legal range, and no handler fires.
\* The inputs are the multiples of RefClock / 2^6 (the frequencies whose exact
\* tuning words are the multiples of 2^26) up to MaxMultiple, the start
\* frequency, the frequency 2100 of the documented scenario, the smallest
\* frequency whose word differs from the datasheet formula (60847), the one
\* frequency of the range at which the rounding of the double product
\* changes the word (25661061), and the maximum.
FreqStride == RefClock \div Pow2(6)
TestFreqs == {k * FreqStride : k \in 0..MaxMultiple}
             \cup {startVal, 2100, 60847, 25661061, maxVal}

CodecInit ==
    /\ pc = "l130"
    /\ encoderVal \in TestFreqs
    /\ encoderVal # lastEncoderValInit
    /\ encoderInc = startInc
    /\ encoderLH1 = FALSE
    /\ encoderLH2 = FALSE
    /\ lastEncoderVal = lastEncoderValInit
    /\ lastEncoderInc = lastEncoderIncInit
    /\ frequency = 0
    /\ word = 0
    /\ freq = 0
    /\ b = 0
    /\ data = 0
    /\ i = 0
    /\ line = [p \in Pins |-> LOW]
    /\ frame = <<>>
    /\ fresh = FALSE
    /\ shownFreq = <<>>
    /\ shownInc = <<>>
    /\ events = 0
    /\ preempted = FALSE
    /\ entryVal = encoderVal
    /\ pressedFrom = 0
    /\ trail = <<>>

CodecNext == L130 \/ L178 \/ L179h \/ L179l \/ L190h \/ L190l

CodecSpec == CodecInit /\ [][CodecNext]_vars

\* ------------------------------------------------- clean quadrature signal
\* The two handlers alone, driven by a clean signal: one channel changes at a
\* time, each edge is handled to completion before the next one, both
\* digitalRead calls of an invocation see the level after the edge, and each
\* latch agrees with the level of its line, so that the level after an edge
\* is the opposite of the latch.  The step size stays as it is.
MaxEdges == 8
TrailLen == 4
Decades == {1, 10, 100, 1000, 10000, 100000, 1000000}

LevelAfterEdge(latch) == IF latch THEN LOW ELSE HIGH

Recent(t) == IF Len(t) > TrailLen THEN SubSeq(t, Len(t) - TrailLen + 1, Len(t)) ELSE t

QuadInit ==
    /\ pc = "l127"
    /\ encoderVal \in StartVals
    /\ encoderInc \in Decades
    /\ encoderLH1 \in BOOLEAN
    /\ encoderLH2 \in BOOLEAN
    /\ lastEncoderVal = encoderVal
    /\ lastEncoderInc = encoderInc
    /\ frequency = encoderVal
    /\ word = TuningWord(encoderVal)
    /\ freq = 0
    /\ b = TuningBytes
    /\ data = 0
    /\ i = BitsPerByte
    /\ line = [p \in Pins |-> LOW]
    /\ frame = <<>>
    /\ fresh = FALSE
    /\ shownFreq = <<encoderVal>>
    /\ shownInc = <<encoderInc>>
    /\ events = 0
    /\ preempted = TRUE
    /\ entryVal = 0
    /\ pressedFrom = 0
    /\ trail = <<>>

Edge1 ==
    /\ events < MaxEdges
    /\ events' = events + 1
    /\ LET r == LevelAfterEdge(encoderLH1) IN
          /\ encoderVal' = Encoder1Val(r, encoderVal, encoderInc, encoderLH2)
          /\ encoderLH1' = Encoder1LH(r, r, encoderLH1)
          /\ trail' = Recent(Append(trail, <<1, r, encoderVal>>))
    /\ UNCHANGED <<pc, encoderInc, encoderLH2, statics, locals, wires, serial,
                   preempted, entryVal, pressedFrom>>

Edge2 ==
    /\ events < MaxEdges
    /\ events' = events + 1
    /\ LET r == LevelAfterEdge(encoderLH2) IN
          /\ encoderVal' = Encoder2Val(r, encoderVal, encoderInc, encoderLH1)
          /\ encoderLH2' = Encoder2LH(r, r, encoderLH2)
          /\ trail' = Recent(Append(trail, <<2, r, encoderVal>>))
    /\ UNCHANGED <<pc, encoderInc, encoderLH1, statics, locals, wires, serial,
                   preempted, entryVal, pressedFrom>>

QuadNext == Edge1 \/ Edge2

QuadSpec == QuadInit /\ [][QuadNext]_vars

\* =================================================================== claims
SendPcs == {"l178", "l179h", "l179l", "l190h", "l190l"}

\* the frame the chip must receive for tuning word w: bits 0..31 of w, least
\* significant first, then the 8 zero bits of the control byte
FrameBits == 32 + 8
FrameOf(w) == [k \in 1..FrameBits |-> IF k <= 32 THEN BitOf(w, k - 1) ELSE 0]

\* floor(f * 2^32 / 125000000) in exact integer arithmetic, for f >= 0
ExactWord(f) == ShlDiv(f, 32)[1]

\* C1: after setup, FQ_UD rises only when exactly 40 W_CLK rising edges have
\* occurred since the previous FQ_UD rising edge, and W_CLK rises only after
\* DATA has been written, since the previous W_CLK rising edge, with the low
\* bit of the byte in flight; whatever handlers fire in between.
C1_LatchOnlyFullFrame ==
    /\ [][(pc \notin SetupPcs /\ line[FQ_UD] = LOW /\ line'[FQ_UD] = HIGH)
             => Len(frame) = FrameBits]_vars
    /\ [][(pc \notin SetupPcs /\ line[W_CLK] = LOW /\ line'[W_CLK] = HIGH)
             => (fresh /\ line[DATA] = data % 2 /\ Len(frame) < FrameBits)]_vars

\* C1 witness: FQ_UD has just been raised by sendFrequency in an iteration
\* during which a handler ran
C1_Witness ==
    pc = "l190l" /\ line[FQ_UD] = HIGH /\ preempted /\ events = MaxEvents

\* C2: the tuning word sendFrequency serializes for a frequency f of
\* [0, 32000000] is floor(f * 2^32 / 125000000).
C2_WordIsDatasheetFormula ==
    (pc \in SendPcs /\ frequency >= minVal /\ frequency <= maxVal)
        => word = ExactWord(frequency)

\* C3: the bits clocked onto DATA are, in order, bits 0..31 of the tuning
\* word, least significant first, followed by the 8 zero bits of the control
\* byte: during the transmission the frame is a prefix of that sequence, and
\* when FQ_UD is about to be pulsed it is all 40 bits (5 bytes, the fifth 0).
C3_FrameIsWordLsbFirst ==
    pc \in SendPcs =>
        /\ Len(frame) <= FrameBits
        /\ frame = SubSeq(FrameOf(word), 1, Len(frame))
        /\ pc = "l190h" => Len(frame) = FrameBits

\* C3 witness: the whole frame of the maximum frequency has been clocked in
C3_Witness ==
    pc = "l190h" /\ frequency = maxVal /\ Len(frame) = FrameBits /\ word > 0

\* C4: every frequency passed to sendFrequency lies in [minVal, maxVal].
C4_SentFrequencyInRange ==
    pc \in SendPcs => (frequency >= minVal /\ frequency <= maxVal)

\* C5: after every execution of ISR_Button the step size is one of the
\* decade values 1 .. 1000000.
C5_ButtonLeavesDecade ==
    [][ISR_Button => encoderInc' \in Decades]_vars

\* C6: once encoderInc is below minInc and no handler can fire any more, the
\* fairly scheduled loop eventually sets it to maxInc.
C6_LoopWrapsEventually ==
    (encoderInc < minInc /\ events = MaxEvents) ~> (encoderInc = maxInc)

\* C7: when the loop leaves the frequency branch (the snapshot assignment of
\* line 132), the snapshot equals the frequency last passed to sendFrequency.
C7_SnapshotIsSentFrequency ==
    [][(pc = "l132" /\ pc' = "l135") => lastEncoderVal' = frequency']_vars

\* the value that follows d in 1000000 -> 100000 -> ... -> 1 -> 1000000
DecadeAfter(d) == IF d = 1 THEN 1000000 ELSE d \div 10

RECURSIVE DecadeAfterN(_, _)
DecadeAfterN(d, n) == IF n = 0 THEN d ELSE DecadeAfterN(DecadeAfter(d), n - 1)

\* C8: a button press at a decade step size d followed by an un-preempted
\* loop iteration leaves the next value of the cycle 1000000 -> 100000 -> ...
\* -> 1 -> 1000000, which returns to d after seven applications and not before.
C8_DecadeCycle ==
    /\ (pc = "l127" /\ ~preempted /\ pressedFrom \in Decades)
          => encoderInc = DecadeAfter(pressedFrom)
    /\ \A d \in Decades : \A n \in 1..7 : (DecadeAfterN(d, n) = d) <=> (n = 7)

\* C9: an un-preempted loop iteration that starts with encoderVal above maxVal
\* (below minVal) ends with encoderVal, the transmitted frequency and the
\* snapshot all equal to maxVal (minVal).
C9_QuietIterationClamps ==
    (pc = "l127" /\ ~preempted) =>
        /\ entryVal > maxVal =>
              (encoderVal = maxVal /\ frequency = maxVal /\ lastEncoderVal = maxVal)
        /\ entryVal < minVal =>
              (encoderVal = minVal /\ frequency = minVal /\ lastEncoderVal = minVal)

\* the levels of the last n edges of the trail, as <<pin, level>> pairs
LastEdges(n) ==
    [k \in 1..n |-> <<trail[Len(trail) - n + k][1], trail[Len(trail) - n + k][2]>>]

Clockwise == <<<<1, HIGH>>, <<2, HIGH>>, <<1, LOW>>, <<2, LOW>>>>
CounterClockwise == <<<<2, HIGH>>, <<1, HIGH>>, <<2, LOW>>, <<1, LOW>>>>

\* C10: on a clean quadrature signal a full clockwise cycle (A rises, B rises,
\* A falls, B falls) changes encoderVal by +encoderInc, a full
\* counter-clockwise cycle (B rises, A rises, B falls, A falls) by
\* -encoderInc, and an invocation that sees its line low leaves it unchanged.
C10_CleanCycleIsOneStep ==
    /\ (Len(trail) >= 4 /\ LastEdges(4) = Clockwise)
          => encoderVal = trail[Len(trail) - 3][3] + encoderInc
    /\ (Len(trail) >= 4 /\ LastEdges(4) = CounterClockwise)
          => encoderVal = trail[Len(trail) - 3][3] - encoderInc
    /\ (Len(trail) >= 1 /\ trail[Len(trail)][2] = LOW)
          => encoderVal = trail[Len(trail)][3]

\* C10 witness: a clockwise cycle and then a counter-clockwise cycle have
\* been completed
C10_Witness ==
    /\ Len(trail) >= 4
    /\ events > 4
    /\ LastEdges(4) = CounterClockwise
    /\ encoderVal = trail[1][3] - encoderInc
    /\ encoderLH1 = FALSE /\ encoderLH2 = FALSE

\* the positions of setup in program order, and the rank of a position in it
\* (the loop and everything it calls rank after setup)
SetupOrder == <<"s116h", "s116l", "s117h", "s117l", "s118h", "s118l">>
SetupRank(p) == IF p \in SetupPcs THEN CHOOSE k \in 1..6 : SetupOrder[k] = p ELSE 7

\* C11: the initialisation pulses happen once and in the order RESET, W_CLK,
\* FQ_UD: setup only moves forward and is never re-entered, RESET changes only
\* in the first pulse, and during setup W_CLK changes only in the second and
\* FQ_UD only in the third; each pulse raises and then lowers its pin; DATA
\* is not written before setup is over, whatever handlers fire meanwhile.
C11_SetupPulsesInOrder ==
    /\ [][SetupRank(pc') \in {SetupRank(pc), SetupRank(pc) + 1} \/ SetupRank(pc) = 7]_vars
    /\ [][SetupRank(pc) = 7 => SetupRank(pc') = 7]_vars
    /\ [][line'[RESET] # line[RESET] => SetupRank(pc) \in {1, 2}]_vars
    /\ [][(pc \in SetupPcs /\ line'[W_CLK] # line[W_CLK]) => SetupRank(pc) \in {3, 4}]_vars
    /\ [][(pc \in SetupPcs /\ line'[FQ_UD] # line[FQ_UD]) => SetupRank(pc) \in {5, 6}]_vars
    /\ [][(pc \in SetupPcs /\ pc' # pc) =>
             (\E p \in Pins : /\ line[p] = (IF SetupRank(pc) % 2 = 1 THEN LOW ELSE HIGH)
                               /\ line'[p] = (IF SetupRank(pc) % 2 = 1 THEN HIGH ELSE LOW))]_vars
    /\ [][(pc \in SetupPcs) => (fresh = FALSE /\ fresh' = FALSE /\ line'[DATA] = LOW)]_vars

\* C11 witness: the third pulse is high, after handlers have fired during
\* setup
C11_Witness ==
    pc = "s118l" /\ line[FQ_UD] = HIGH /\ line[RESET] = LOW /\ line[W_CLK] = LOW
    /\ events = MaxEvents /\ encoderVal # startVal

\* ------------------------------------------------ the documented scenario
\* The loop as it runs while encoderVal stays inside [minVal, maxVal] and
\* encoderInc at or above minInc: the assignments of lines 128, 129 and 136
\* are not reached (the claims checked under the specifications below state
\* it).
QuietLoop == L127 \/ L128 \/ L129 \/ SendFrequency \/ L131 \/ L132
             \/ L135 \/ L136 \/ L137 \/ L138

\* power-up: encoderVal = startVal, encoderInc = startInc
PowerUp == Init /\ encoderVal = startVal /\ encoderInc = startInc

\* one clockwise detent, one button press (a falling edge), one clockwise
\* detent
ButtonEdge == <<0, LOW>>
Script == Clockwise \o <<ButtonEdge>> \o Clockwise

\* the loop is between two iterations and has taken note of everything
AtRest == pc = "l127" /\ lastEncoderVal = encoderVal /\ lastEncoderInc = encoderInc

\* the first edge of each input event waits for the loop to be at rest; the
\* edges inside a detent arrive between two iterations
ScriptedEvent(pin) ==
    /\ events < Len(Script)
    /\ Script[events + 1][1] = pin
    /\ pc = "l127"
    /\ (events + 1 \in {1, 5, 6}) => AtRest
    /\ events' = events + 1
    /\ preempted' = TRUE
    /\ entryVal' = 0
    /\ UNCHANGED <<pc, statics, locals, wires, serial>>

ScenarioEdge1 ==
    /\ ScriptedEvent(1)
    /\ LET r == Script[events + 1][2] IN
          /\ encoderVal' = Encoder1Val(r, encoderVal, encoderInc, encoderLH2)
          /\ encoderLH1' = Encoder1LH(r, r, encoderLH1)
          /\ trail' = <<<<1, r, r>>>>
    /\ UNCHANGED <<encoderInc, encoderLH2, pressedFrom>>

ScenarioEdge2 ==
    /\ ScriptedEvent(2)
    /\ LET r == Script[events + 1][2] IN
          /\ encoderVal' = Encoder2Val(r, encoderVal, encoderInc, encoderLH1)
          /\ encoderLH2' = Encoder2LH(r, r, encoderLH2)
          /\ trail' = <<<<2, r, r>>>>
    /\ UNCHANGED <<encoderInc, encoderLH1, pressedFrom>>

ScenarioPress ==
    /\ ScriptedEvent(0)
    /\ encoderInc' = Button(encoderInc)
    /\ pressedFrom' = encoderInc
    /\ trail' = <<<<0, LOW, LOW>>>>
    /\ UNCHANGED <<encoderVal, encoderLH1, encoderLH2>>

ScenarioNext == SetupPulse \/ QuietLoop \/ ScenarioEdge1 \/ ScenarioEdge2 \/ ScenarioPress

ScenarioSpec == PowerUp /\ [][ScenarioNext]_vars

\* the scenario with w the tuning word of the last frame
ScenarioEndsWithWord(w) ==
    /\ pc \notin {"l128w", "l129w", "l136w"}
    /\ (events >= 1 /\ events <= 5) => encoderVal = 2000
    /\ events < 5 => encoderInc = 1000
    /\ events >= 5 => encoderInc = 100
    /\ events >= 6 => encoderVal = 2100
    /\ (events = Len(Script) /\ pc \in SendPcs) => (frequency = 2100 /\ word = w)
    /\ (events = Len(Script) /\ pc = "l190h") => frame = FrameOf(w)

\* C12 (as stated): from 1000/1000, a clockwise detent gives 2000, a press
\* gives step 100, another clockwise detent gives 2100, and the frame then
\* transmitted carries tuning word 72.
C12_ScenarioWord72 == ScenarioEndsWithWord(72)

\* C12 (amended): the same scenario, the frame carrying tuning word 72155,
\* which is floor(2100 * 2^32 / 125000000).
C12_ScenarioWord72155 == ScenarioEndsWithWord(72155) /\ ExactWord(2100) = 72155

\* C12 witness: the frame for 2100 Hz is complete, at the end of the scenario
C12_Witness ==
    events = Len(Script) /\ pc = "l190h" /\ frequency = 2100 /\ encoderInc = 100
    /\ Len(frame) = FrameBits

\* C13: the tuning word w sent for a frequency f of [0, 32000000] decodes
\* back to within one quantization step: |f * 2^32 - w * 125000000| <=
\* 125000000.  With f * 2^32 = q * 125000000 + r (0 <= r < 125000000) the
\* difference is (q - w) * 125000000 + r, which is within the step exactly
\* when w = q, or w = q + 1, or w = q - 1 and r = 0.
C13_WordDecodesWithinOneStep ==
    (pc \in SendPcs /\ frequency >= minVal /\ frequency <= maxVal) =>
        LET qr == ShlDiv(frequency, WordBits)
        IN  \/ word = qr[1]
            \/ word = qr[1] + 1
            \/ word = qr[1] - 1 /\ qr[2] = 0

\* the handler that ran in a step that is a handler invocation (0 the
\* button, 1 channel A, 2 channel B)
Invoked == trail'[1][1]

\* C14: ISR_Button leaves encoderVal and both latches unchanged;
\* ISR_Encoder1 leaves encoderInc and encoderLH2 unchanged, ISR_Encoder2
\* leaves encoderInc and encoderLH1 unchanged; so among the handlers only
\* ISR_Button writes encoderInc and only the encoder handlers write
\* encoderVal.
C14_HandlerFrames ==
    /\ [][(events' # events /\ Invoked = 0)
             => UNCHANGED <<encoderVal, encoderLH1, encoderLH2>>]_vars
    /\ [][(events' # events /\ Invoked = 1) => UNCHANGED <<encoderInc, encoderLH2>>]_vars
    /\ [][(events' # events /\ Invoked = 2) => UNCHANGED <<encoderInc, encoderLH1>>]_vars
    /\ [][(events' # events /\ encoderInc' # encoderInc) => Invoked = 0]_vars
    /\ [][(events' # events /\ encoderVal' # encoderVal) => Invoked \in {1, 2}]_vars

\* C14 witness: the button and then channel A (seen high) have been handled
C14_Witness ==
    /\ events = MaxEvents /\ pressedFrom = startInc /\ encoderInc = 100
    /\ trail = <<<<1, HIGH, HIGH>>>> /\ encoderLH1 /\ ~encoderLH2
    /\ encoderVal = startVal + 100

\* the handler invocation of this step was of channel `pin` and both its
\* digitalRead calls returned `level` (the line did not change meanwhile)
Observed(pin, level) ==
    events' # events /\ trail' = <<<<pin, level, level>>>>

FreqBranchPcs == {"l128", "l128w", "l129", "l129w", "l130", "l131", "l132"} \cup SendPcs

\* C16: the loop enters its frequency branch only from the comparison of
\* line 127 and only when encoderVal differs from lastEncoderVal; outside
\* setup and that branch no foreground step writes DATA, W_CLK or FQ_UD
\* (nor shifts or latches anything into the chip), and outside the branch
\* no foreground step modifies encoderVal; so an iteration that finds them
\* equal, such as one that follows a button press alone, sends nothing.
C16_TransmitOnlyOnChange ==
    /\ [][(pc' \in FreqBranchPcs /\ pc \notin FreqBranchPcs)
             => (pc = "l127" /\ pc' = "l128" /\ lastEncoderVal # encoderVal)]_vars
    /\ [][(pc = "l127" /\ pc' # pc /\ lastEncoderVal = encoderVal) => pc' = "l135"]_vars
    /\ [][(pc \notin FreqBranchPcs /\ pc \notin SetupPcs)
             => (line' = line /\ frame' = frame /\ fresh' = fresh)]_vars
    /\ [][(pc \notin FreqBranchPcs /\ events' = events) => encoderVal' = encoderVal]_vars
    /\ [][(events' # events) => (pc' = pc /\ line' = line /\ frame' = frame)]_vars

\* C16 witness: after a button press alone, an un-preempted iteration has
\* found the frequency unchanged and is at the step-size comparison, with
\* the chip still holding the frame of the start-up transmission
C16_Witness ==
    /\ pc = "l135" /\ ~preempted /\ events = 1
    /\ lastEncoderVal = encoderVal /\ entryVal = encoderVal
    /\ lastEncoderInc = startInc /\ encoderInc = Button(startInc)
    /\ frame = <<>> /\ shownFreq = <<encoderVal>>

\* ---------------------------------------------------- no input after power-up
\* The program from power-up with no handler ever invoked; the loop runs for
\* ever and never blocks.
QuietNext == SetupPulse \/ QuietLoop

QuietSpec == PowerUp /\ [][QuietNext]_vars /\ WF_vars(QuietNext)

\* C17: with no input after power-up the loop's first iteration transmits
\* the frame of startVal (tuning word 34359) and reports startVal and
\* startInc: a frame is never other than that of startVal, the display
\* values never other than startVal and startInc, the assignments of lines
\* 128, 129 and 136 are not reached, and eventually the chip has latched
\* the frame and both values have been reported and recorded.
C17_StartupProgramsChip ==
    /\ [](pc \notin {"l128w", "l129w", "l136w"})
    /\ [](pc \in SendPcs => (frequency = startVal /\ word = 34359))
    /\ [](pc = "l190h" => frame = FrameOf(34359))
    /\ [](shownFreq \in {<<>>, <<startVal>>} /\ shownInc \in {<<>>, <<startInc>>})
    /\ <>(pc = "l190l" /\ line[FQ_UD] = HIGH /\ lastEncoderVal = lastEncoderValInit)
    /\ <>[](/\ shownFreq = <<startVal>> /\ shownInc = <<startInc>>
            /\ lastEncoderVal = startVal /\ lastEncoderInc = startInc
            /\ pc \notin SendPcs)

\* C17 witness: the first iteration has latched the frame of startVal and
\* is about to report it, nothing having been reported yet
C17_Witness ==
    /\ pc = "l131" /\ events = 0 /\ frequency = startVal /\ word = 34359
    /\ lastEncoderVal = lastEncoderValInit /\ lastEncoderInc = lastEncoderIncInit
    /\ shownFreq = <<>> /\ shownInc = <<>>

\* the number of bits clocked out so far by the sendFrequency call in
\* progress, from the positions of its two loops
BitsSent == BitsPerByte * b + i + (IF pc = "l179l" THEN 1 ELSE 0)

\* C18: every frame is that of the one value of encoderVal read when
\* sendFrequency was called: the call computes the tuning word of that
\* value, every W_CLK pulse of the call shifts in the next bit of that word
\* (bit BitsSent, then the zeros of the control byte), the chip has received
\* exactly BitsSent bits, FQ_UD is pulsed after bit 40, and a handler
\* invocation changes neither the value being sent, nor the bits still to
\* be sent, nor the position in the frame, nor any output line, even when
\* it changes encoderVal or encoderInc.
C18_FrameIsOneSnapshot ==
    /\ [](pc \in SendPcs \ {"l190l"} => (Len(frame) = BitsSent /\ BitsSent <= FrameBits))
    /\ [](pc = "l190h" => BitsSent = FrameBits)
    /\ [][(pc = "l130" /\ pc' # pc)
             => (frequency' = encoderVal /\ word' = TuningWord(encoderVal) /\ frame' = <<>>)]_vars
    /\ [][(pc = "l179h" /\ pc' # pc)
             => frame' = Append(frame, IF BitsSent < WordBits THEN BitOf(word, BitsSent) ELSE 0)]_vars
    /\ [][(pc \in SendPcs /\ pc' \in SendPcs)
             => (frequency' = frequency /\ word' = word)]_vars
    /\ [][(pc \in SendPcs \ {"l179h", "l190h"}) => frame' = frame]_vars
    /\ [][(events' # events) => UNCHANGED <<pc, locals, wires>>]_vars

\* C18 witness: the complete frame of the value read at the call is about
\* to be latched although handlers have changed encoderVal and encoderInc
\* since (the frame was started before the last of them ran)
C18_Witness ==
    /\ pc = "l190h" /\ events = MaxEvents /\ preempted
    /\ encoderVal # frequency /\ encoderInc # startInc
    /\ frequency = startVal /\ lastEncoderVal = lastEncoderValInit
    /\ frame = FrameOf(34359)

\* the pins of the last n edges of the trail
LastPins(n) == [k \in 1..n |-> trail[Len(trail) - n + k][1]]

\* the four-edge sequences after which both lines are back at their levels
\* with no net rotation: each channel changes an even number of times and
\* the edges do not alternate (x, y, x, y is a full cycle, one detent)
ZeroNetPins == {q \in [1..4 -> {1, 2}] :
                  /\ Cardinality({k \in 1..4 : q[k] = 1}) \in {0, 2, 4}
                  /\ ~(q[1] = q[3] /\ q[2] = q[4] /\ q[1] # q[2])}

\* C19: on a clean quadrature signal with a constant step size and no
\* clamping, whenever the last two or the last four edges bring both lines
\* back to their levels with no net rotation (the same channel changing
\* twice in a row, such as A rising then A falling while B stays low, or
\* four edges of ZeroNetPins), encoderVal is what it was before those edges.
C19_ZeroNetRotationRestores ==
    /\ (Len(trail) >= 2 /\ LastPins(2)[1] = LastPins(2)[2])
          => encoderVal = trail[Len(trail) - 1][3]
    /\ (Len(trail) >= 4 /\ LastPins(4) \in ZeroNetPins)
          => encoderVal = trail[Len(trail) - 3][3]

\* the unsigned number whose bits 0 .. n-1 are the first n bits received
RECURSIVE FrameValue(_, _)
FrameValue(fr, n) == IF n = 0 THEN 0 ELSE FrameValue(fr, n - 1) + fr[n] * Pow2(n - 1)

\* C20: for a frequency of [0, 32000000] the tuning word is non-negative and
\* below 2^31 (bit 31 of what is sent is 0); so when tfr_byte is entered for
\* byte b of the word, freq is the word shifted right by 8 * b bits and the
\* byte passed is (word / 256^b) mod 256, and the 32 bits received, read as
\* an unsigned number, are the word.
C20_WordFitsSigned32 ==
    (pc \in SendPcs /\ frequency >= minVal /\ frequency <= maxVal) =>
        /\ word >= 0
        /\ word \div 2 < Pow2(30)
        /\ (pc = "l178" /\ i = 0 /\ b < 4) =>
              (freq = word \div Pow2(8 * b) /\ data = (word \div Pow2(8 * b)) % 256)
        /\ pc = "l190h" =>
              (Len(frame) = FrameBits /\ frame[32] = 0 /\ FrameValue(frame, 31) = word)

\* C20 witness: the top byte (0x41) of the word of the maximum frequency,
\* 1099511627 = 0x4189374B, is about to be sent
C20_Witness ==
    pc = "l178" /\ i = 0 /\ b = 3 /\ frequency = maxVal /\ word = 1099511627 /\ data = 65

====
